---- MODULE Spec2Model ----
(***************************************************************************)
(* A model of src/pulp/client/repo_file.py: the Repo record, the RepoFile  *)
(* INI document with its file, the MirrorListFile and the blank-line       *)
(* suppressing Reader.                                                     *)
(*                                                                         *)
(* A text file is modelled as the sequence of its lines, i.e. what         *)
(* text.split('\n') gives.  A line is a record [t, k, v]: its kind and its *)
(* two text fields.  A mirror list file is modelled as a sequence of       *)
(* characters, because MirrorListFile.load splits it on whitespace.        *)
(*                                                                         *)
(* The INI document held by iniparse's ConfigParser is modelled as the     *)
(* sequence of its top-level items (INIConfig._data): comment lines, empty *)
(* lines and section containers, each container holding its option lines.  *)
(***************************************************************************)
EXTENDS Integers, Sequences, FiniteSets, TLC

VARIABLES
    lines,      \* Reader.lines: the lines of the file the Reader was opened on
    idx,        \* Reader.idx: the cursor
    out,        \* the lines readline() has returned so far, in order
    ret,        \* what the last readline() call returned
    ended,      \* some readline() call has returned None
    entries,    \* MirrorListFile.entries of the writing instance
    mfile,      \* the mirror list file on disk: its characters, or NoMirrorFile
    msaved,     \* the entries the last MirrorListFile.save() wrote
    mfresh,     \* entries of a second instance after its load(), or NotLoaded
    mlast,      \* the last MirrorListFile operation and its outcome
    file,       \* the repo file on disk: NoFile or its sequence of lines
    parser,     \* RepoFile.parser: the in-memory INI document
    repo,       \* the Repo object last passed to add_repo / update_repo, or NoRepo
    nsets,      \* assignments the caller made to that object after Repo(id)
    added,      \* the Repo objects passed to add_repo so far, in order, while
                \* add_repo is all that has touched the document; else NotTracked
    err,        \* outcome of the last RepoFile operation
    lastOp,     \* the last RepoFile operation
    firstWrite, \* save(): the value of first_write in the last save()
    created     \* a save() of this instance created the file, it still exists,
                \* and this instance has not called load() since

vars == <<lines, idx, out, ret, ended, entries, mfile, msaved, mfresh, mlast,
          file, parser, repo, nsets, added, err, lastOp, firstWrite, created>>

readerVars == <<lines, idx, out, ret, ended>>
mirrorVars == <<entries, mfile, msaved, mfresh, mlast>>
repoVars == <<file, parser, repo, nsets, added, err, lastOp, firstWrite,
              created>>

----------------------------------------------------------------------------
(* Values *)

\* Python's None
None == "<None>"
\* a key that is not in a dict
Absent == "<absent>"
\* the mirror list file does not exist (os.path.exists is false)
NoMirrorFile == <<"<no file>">>
\* the second MirrorListFile instance has not called load()
NotLoaded == << <<"<not loaded>">> >>

\* Kinds of lines
Comment(text) == [t |-> "comment", k |-> text, v |-> ""]
EmptyLine == [t |-> "empty", k |-> "", v |-> ""]
SectionLine(name) == [t |-> "section", k |-> name, v |-> ""]
OptionLine(key, value) == [t |-> "option", k |-> key, v |-> value]
\* the '\n' readline() returns in place of a run of blank lines
NewlineOnly == [t |-> "empty", k |-> "\n", v |-> ""]
\* the None readline() returns at the end of the lines
NoneLine == [t |-> "none", k |-> "", v |-> ""]
\* the value of ret before the first readline() call
NotCalled == [t |-> "not called", k |-> "", v |-> ""]

\* the repo file does not exist (os.path.exists is false)
NoFile == <<[t |-> "no file", k |-> "", v |-> ""]>>

\* `not ln` in Reader.readline: the line is the empty string
IsBlank(ln) == ln.t = "empty" /\ ln.k = ""

----------------------------------------------------------------------------
(* Reader *)

\* The while loop of readline(): scan from i, counting blank lines, up to the
\* first non-blank line or the end of the lines.
RECURSIVE Scan(_, _, _)
Scan(ls, i, nl) ==
    IF i = Len(ls)
    THEN [eof |-> TRUE, i |-> i, nl |-> nl, ln |-> NoneLine]
    ELSE LET ln == ls[i + 1] IN
         IF IsBlank(ln)
         THEN Scan(ls, i + 1, nl + 1)
         ELSE [eof |-> FALSE, i |-> i + 1, nl |-> nl, ln |-> ln]

\* readline() that returns the blank line without stepping back to the
\* pending non-blank line (the `i -= 1` is missing)
ReadlineNoStepBack(ls, i) ==
    LET s == Scan(ls, i, 0) IN
    IF s.eof THEN [ln |-> NoneLine, idx |-> i]
    ELSE IF s.nl > 0 THEN [ln |-> NewlineOnly, idx |-> s.i]
    ELSE [ln |-> s.ln, idx |-> s.i]

\* readline() that returns each blank line as it meets it
ReadlineNoCollapse(ls, i) ==
    IF i = Len(ls) THEN [ln |-> NoneLine, idx |-> i]
    ELSE IF IsBlank(ls[i + 1]) THEN [ln |-> NewlineOnly, idx |-> i + 1]
    ELSE [ln |-> ls[i + 1], idx |-> i + 1]

\* Reader.readline on lines ls with cursor i: the value returned and the new
\* cursor.  At the end of the lines it returns None and leaves idx alone.
Readline(ls, i) ==
    LET s == Scan(ls, i, 0) IN
    IF s.eof THEN [ln |-> NoneLine, idx |-> i]
    ELSE IF s.nl > 0 THEN [ln |-> NewlineOnly, idx |-> s.i - 1]
    ELSE [ln |-> s.ln, idx |-> s.i]

\* Every line readline() returns until it returns None, from cursor i on.
RECURSIVE ReadAll(_, _)
ReadAll(ls, i) ==
    LET r == Readline(ls, i) IN
    IF r.ln = NoneLine THEN <<>> ELSE <<r.ln>> \o ReadAll(ls, r.idx)

----------------------------------------------------------------------------
(* Bounds and input sets *)

\* longest file the Reader is opened on, in lines
MaxLines == 5

\* all sequences over S of length lo..hi
SeqsOf(S, lo, hi) == UNION {[1..n -> S] : n \in lo..hi}

\* the lines a file handed to the Reader is made of
ReaderLines ==
    {EmptyLine, SectionLine("a"), SectionLine("b"), OptionLine("name", "u")}

----------------------------------------------------------------------------
(* Specification of the Reader: a Reader is constructed on a file and
   readline() is called any number of times *)

\* one call of readline()
ReaderReadline ==
    /\ LET r == Readline(lines, idx) IN
         /\ ret' = r.ln
         /\ idx' = r.idx
         /\ out' = IF r.ln = NoneLine THEN out ELSE Append(out, r.ln)
         /\ ended' = (ended \/ r.ln = NoneLine)
    /\ UNCHANGED <<lines, mirrorVars, repoVars>>

----------------------------------------------------------------------------
(* MirrorListFile *)

\* most entries a MirrorListFile instance holds
MaxEntries == 2

\* the characters str.split() splits on
Whitespace == {" ", "\t", "\n"}

\* The strings handed to add_entry / add_entries, as character sequences:
\* two URLs, a string with a blank inside and the empty string (add_entry
\* validates nothing).
EntryInputs == {<<"a">>, <<"b">>, <<"a", " ", "b">>, <<>>}

\* str.split() with no separator: the maximal runs of non-whitespace
\* characters, in order.  cur is the token being read, acc the tokens so far.
RECURSIVE SplitFrom(_, _, _)
SplitFrom(text, cur, acc) ==
    IF text = <<>>
    THEN IF cur = <<>> THEN acc ELSE Append(acc, cur)
    ELSE IF Head(text) \in Whitespace
         THEN SplitFrom(Tail(text), <<>>,
                        IF cur = <<>> THEN acc ELSE Append(acc, cur))
         ELSE SplitFrom(Tail(text), Append(cur, Head(text)), acc)

Split(text) == SplitFrom(text, <<>>, <<>>)

\* save() that writes the entries without the '\n' after each
RECURSIVE MirrorTextNoNewline(_)
MirrorTextNoNewline(es) ==
    IF es = <<>> THEN <<>> ELSE Head(es) \o MirrorTextNoNewline(Tail(es))

\* MirrorListFile.save: for entry in entries: write(entry); write('\n')
RECURSIVE MirrorText(_)
MirrorText(es) ==
    IF es = <<>> THEN <<>> ELSE Head(es) \o <<"\n">> \o MirrorText(Tail(es))

\* add_entry(url)
MirrorAddEntry ==
    /\ Len(entries) < MaxEntries
    /\ \E url \in EntryInputs : entries' = Append(entries, url)
    /\ mlast' = "add"
    /\ UNCHANGED <<mfile, msaved, mfresh, readerVars, repoVars>>

\* add_entries(url_list)
MirrorAddEntries ==
    /\ \E url_list \in SeqsOf(EntryInputs, 0, MaxEntries - Len(entries)) :
           entries' = entries \o url_list
    /\ mlast' = "add"
    /\ UNCHANGED <<mfile, msaved, mfresh, readerVars, repoVars>>

\* delete(): unlink the file if it exists
MirrorDelete ==
    /\ mfile' = NoMirrorFile
    /\ mlast' = "delete"
    /\ UNCHANGED <<entries, msaved, mfresh, readerVars, repoVars>>

\* load(): open() raises when the file is missing and entries is kept;
\* otherwise entries = f.read().split()
MirrorLoad ==
    /\ IF mfile = NoMirrorFile
       THEN mlast' = "load_error" /\ entries' = entries
       ELSE mlast' = "load" /\ entries' = Split(mfile)
    /\ UNCHANGED <<mfile, msaved, mfresh, readerVars, repoVars>>

\* save(): (over)write the file
MirrorSave ==
    /\ mfile' = MirrorText(entries)
    /\ msaved' = entries
    /\ mfresh' = NotLoaded
    /\ mlast' = "save"
    /\ UNCHANGED <<entries, readerVars, repoVars>>

\* a second MirrorListFile instance constructed on the same path calls load()
MirrorFreshLoad ==
    /\ mfile # NoMirrorFile
    /\ mfresh' = Split(mfile)
    /\ UNCHANGED <<entries, mfile, msaved, mlast, readerVars, repoVars>>

----------------------------------------------------------------------------
(* Repo *)

\* Repo.PROPERTIES: (name, default_value)
PROPERTIES ==
    << <<"name", None>>, <<"enabled", "1">>, <<"gpgkey", None>>,
       <<"sslverify", "0">>, <<"gpgcheck", "0">> >>

\* the names in PROPERTIES
PropertyNames == {PROPERTIES[i][1] : i \in 1..Len(PROPERTIES)}

\* The keys a Repo dict or a section may hold here: the five properties, the
\* two URL keys and one key outside the well-known ones.
Keys == PropertyNames \cup {"baseurl", "mirrorlist", "extra"}

\* the default PROPERTIES declares for k
DefaultOf(k) ==
    PROPERTIES[CHOOSE i \in 1..Len(PROPERTIES) : PROPERTIES[i][1] = k][2]

\* Repo.__init__: self.id = id; self[k] = d for every (k, d) in PROPERTIES.
\* d maps each key to its value, None included, or to Absent.
RepoNew(id) ==
    [id |-> id,
     d |-> [k \in Keys |->
              IF k \in PropertyNames THEN DefaultOf(k) ELSE Absent]]

\* the caller has not created a Repo object yet
NoRepo == [id |-> "<no repo>", d |-> [k \in Keys |-> Absent]]

\* the value of added once something other than add_repo touched the document
NotTracked == <<[id |-> "<not tracked>", d |-> [k \in Keys |-> Absent]]>>

\* dict.get(k): the value, or None when the key is absent
DictGet(r, k) == IF r.d[k] = Absent THEN None ELSE r.d[k]

\* dict.__setitem__
DictSet(r, k, v) == [r EXCEPT !.d[k] = v]

\* Repo.items() that skips the properties whose value is None
ItemsSkipNone(r) ==
    SelectSeq([i \in 1..Len(PROPERTIES) |->
                 <<PROPERTIES[i][1], DictGet(r, PROPERTIES[i][1])>>],
              LAMBDA p : p[2] # None)
    \o (IF r.d["baseurl"] # Absent
        THEN << <<"baseurl", DictGet(r, "baseurl")>> >> ELSE <<>>)
    \o (IF r.d["mirrorlist"] # Absent
        THEN << <<"mirrorlist", DictGet(r, "mirrorlist")>> >> ELSE <<>>)

\* Repo.items() that returns every key of the dict
ItemsAllKeys(r) ==
    [i \in 1..Len(PROPERTIES) |->
        <<PROPERTIES[i][1], DictGet(r, PROPERTIES[i][1])>>]
    \o (IF r.d["baseurl"] # Absent
        THEN << <<"baseurl", DictGet(r, "baseurl")>> >> ELSE <<>>)
    \o (IF r.d["mirrorlist"] # Absent
        THEN << <<"mirrorlist", DictGet(r, "mirrorlist")>> >> ELSE <<>>)
    \o (IF r.d["extra"] # Absent
        THEN << <<"extra", DictGet(r, "extra")>> >> ELSE <<>>)

\* Repo.items(): (k, self.get(k)) for every k of PROPERTIES, in order, then
\* baseurl and mirrorlist when they are in the dict
Items(r) ==
    [i \in 1..Len(PROPERTIES) |->
        <<PROPERTIES[i][1], DictGet(r, PROPERTIES[i][1])>>]
    \o (IF r.d["baseurl"] # Absent
        THEN << <<"baseurl", DictGet(r, "baseurl")>> >> ELSE <<>>)
    \o (IF r.d["mirrorlist"] # Absent
        THEN << <<"mirrorlist", DictGet(r, "mirrorlist")>> >> ELSE <<>>)

----------------------------------------------------------------------------
(* The INI document: iniparse's ConfigParser as RepoFile uses it.  The
   document is the sequence of its top-level items, in file order. *)

\* a top-level comment or empty line
TopLine(l) == [sec |-> FALSE, name |-> "", body |-> <<l>>]
\* a section container: its [name] line, then the lines under it
SectionItem(name, body) == [sec |-> TRUE, name |-> name, body |-> body]

TopLines(ls) == [i \in 1..Len(ls) |-> TopLine(ls[i])]

\* the indexes of the containers of section name
ContainersOf(doc, name) ==
    {i \in 1..Len(doc) : doc[i].sec /\ doc[i].name = name}

\* parser.has_section(name)
HasSection(doc, name) == ContainersOf(doc, name) # {}

\* parser.sections(): the section names in order of first appearance
RECURSIVE SectionsFrom(_, _)
SectionsFrom(doc, seen) ==
    IF doc = <<>> THEN <<>>
    ELSE IF Head(doc).sec /\ Head(doc).name \notin seen
         THEN <<Head(doc).name>>
              \o SectionsFrom(Tail(doc), seen \cup {Head(doc).name})
         ELSE SectionsFrom(Tail(doc), seen)

Sections(doc) == SectionsFrom(doc, {})

\* the positions <<i, j>> of the option lines of section name with key k
OptionPlaces(doc, name, k) ==
    UNION {{<<i, j>> : j \in {n \in 1..Len(doc[i].body) :
                                  /\ doc[i].body[n].t = "option"
                                  /\ doc[i].body[n].k = k}} :
           i \in ContainersOf(doc, name)}

\* the option line the section's option table points at: the last one read
LastPlace(places) ==
    CHOOSE p \in places :
        \A q \in places : q[1] < p[1] \/ (q[1] = p[1] /\ q[2] <= p[2])

\* parser.has_option / the value parser.items(name) gives for k, or Absent
OptionValue(doc, name, k) ==
    LET places == OptionPlaces(doc, name, k) IN
    IF places = {} THEN Absent
    ELSE LET p == LastPlace(places) IN doc[p[1]].body[p[2]].v

\* parser.add_section(name): DuplicateSectionError if the section exists;
\* else an empty line (when the document is not empty) and a new container
AddSection(doc, name) ==
    IF HasSection(doc, name)
    THEN [doc |-> doc, err |-> "DuplicateSectionError"]
    ELSE [doc |-> (IF doc = <<>> THEN doc ELSE Append(doc, TopLine(EmptyLine)))
                  \o <<SectionItem(name, <<>>)>>,
          err |-> "ok"]

\* parser.remove_section(name): every container of the section goes, the
\* lines around it stay
RemoveSection(doc, name) ==
    SelectSeq(doc, LAMBDA it : ~(it.sec /\ it.name = name))

\* parser.set(name, k, v): NoSectionError if there is no such section; an
\* option the section has is overwritten in place, a new one is appended to
\* the section's last container
SetOption(doc, name, k, v) ==
    IF ~HasSection(doc, name)
    THEN [doc |-> doc, err |-> "NoSectionError"]
    ELSE LET places == OptionPlaces(doc, name, k) IN
         IF places # {}
         THEN LET p == LastPlace(places) IN
              [doc |-> [doc EXCEPT ![p[1]].body[p[2]].v = v], err |-> "ok"]
         ELSE LET c == CHOOSE i \in ContainersOf(doc, name) :
                           \A j \in ContainersOf(doc, name) : j <= i IN
              [doc |-> [doc EXCEPT ![c].body = Append(@, OptionLine(k, v))],
               err |-> "ok"]

\* parser.remove_option(name, k): NoSectionError if there is no such section;
\* else every option line of the section with that key goes
RemoveOption(doc, name, k) ==
    IF ~HasSection(doc, name)
    THEN [doc |-> doc, err |-> "NoSectionError"]
    ELSE [doc |-> [i \in 1..Len(doc) |->
                     IF doc[i].sec /\ doc[i].name = name
                     THEN [doc[i] EXCEPT !.body =
                             SelectSeq(@, LAMBDA l : ~(l.t = "option" /\ l.k = k))]
                     ELSE doc[i]],
          err |-> "ok"]

\* `if v:` in _repo_to_parser
Truthy(v) == v \notin {None, ""}

----------------------------------------------------------------------------
(* RepoFile: contents manipulation *)

\* The loop of _repo_to_parser over its items: set the option when the value
\* is truthy, remove it otherwise; the first call that raises ends the loop.
RECURSIVE ApplyItems(_, _, _)
ApplyItems(doc, id, items) ==
    IF items = <<>> THEN [doc |-> doc, err |-> "ok"]
    ELSE LET k == Head(items)[1]
             v == Head(items)[2]
             step == IF Truthy(v) THEN SetOption(doc, id, k, v)
                     ELSE RemoveOption(doc, id, k)
         IN IF step.err # "ok" THEN step
            ELSE ApplyItems(step.doc, id, Tail(items))

\* RepoFile._repo_to_parser(repo)
RepoToParser(doc, r) == ApplyItems(doc, r.id, Items(r))

\* add_repo that writes the repo into the document before add_section
AddRepoWriteFirst(doc, r) ==
    LET w == IF HasSection(doc, r.id) THEN RepoToParser(doc, r)
             ELSE [doc |-> doc, err |-> "ok"]
        a == AddSection(w.doc, r.id)
    IN IF a.err # "ok" THEN a ELSE RepoToParser(a.doc, r)

\* RepoFile.add_repo(repo): add_section(repo.id), then _repo_to_parser(repo)
AddRepoResult(doc, r) ==
    LET a == AddSection(doc, r.id) IN
    IF a.err # "ok" THEN a ELSE RepoToParser(a.doc, r)

\* RepoFile.update_repo(repo): _repo_to_parser(repo)
UpdateRepoResult(doc, r) == RepoToParser(doc, r)

\* _parser_to_repo that starts from an empty record instead of Repo(name)
ParserToRepoNoDefaults(doc, name) ==
    [id |-> name, d |-> [k \in Keys |-> OptionValue(doc, name, k)]]

\* RepoFile._parser_to_repo(name): Repo(name), then repo[key] = value for
\* every (key, value) of the section
ParserToRepo(doc, name) ==
    [id |-> name,
     d |-> [k \in Keys |->
              IF OptionValue(doc, name, k) # Absent
              THEN OptionValue(doc, name, k)
              ELSE RepoNew(name).d[k]]]

\* RepoFile.get_repo(name); NoRepo stands for the None it returns when there
\* is no such section
GetRepo(doc, name) ==
    IF HasSection(doc, name) THEN ParserToRepo(doc, name) ELSE NoRepo

\* RepoFile.all_repos()
AllRepos(doc) ==
    [i \in 1..Len(Sections(doc)) |-> ParserToRepo(doc, Sections(doc)[i])]

----------------------------------------------------------------------------
(* RepoFile: file manipulation *)

\* RepoFile.FILE_HEADER, as its lines: four comment lines and a blank line
FILE_HEADER ==
    <<Comment("#"), Comment("# Pulp Repositories"),
      Comment("# Managed by Pulp client"), Comment("#"), EmptyLine>>

\* the lines of the items of a document, in order
RECURSIVE Flatten(_)
Flatten(doc) ==
    IF doc = <<>> THEN <<>>
    ELSE (IF Head(doc).sec
          THEN <<SectionLine(Head(doc).name)>> \o Head(doc).body
          ELSE Head(doc).body)
         \o Flatten(Tail(doc))

\* parser.write(f): the lines joined by '\n'; as lines of the file, the text of
\* an empty document is one empty line
DocLines(doc) == IF Flatten(doc) = <<>> THEN <<EmptyLine>> ELSE Flatten(doc)

\* save(): the file save() leaves: the header if first_write, then the
\* document.  The file is opened with 'w', so nothing of the old file stays.
SaveLines(doc, first_write) ==
    (IF first_write THEN FILE_HEADER ELSE <<>>) \o DocLines(doc)

\* the value of a parsed option line: trailing whitespace is not part of it
Rstrip(v) == IF v = "u " THEN "u" ELSE v

\* what the parser makes of one line the Reader hands it
ParseLine(l) ==
    IF l.t = "option" THEN OptionLine(l.k, Rstrip(l.v))
    ELSE IF l.t = "empty" THEN EmptyLine
    ELSE l

\* parser.readfp over the lines ls still to read.  data is the document so
\* far, pending the comment and empty lines not yet placed, inSec whether a
\* section line has been read.  Lines are added to the document that is
\* there: readfp does not empty it first.
RECURSIVE ReadLines(_, _, _, _)
ReadLines(ls, data, pending, inSec) ==
    IF ls = <<>> THEN [doc |-> data \o TopLines(pending), err |-> "ok"]
    ELSE LET l == ParseLine(Head(ls)) IN
         IF l.t = "section"
         THEN ReadLines(Tail(ls),
                        data \o TopLines(pending) \o <<SectionItem(l.k, <<>>)>>,
                        <<>>, TRUE)
         ELSE IF l.t = "option"
         THEN IF ~inSec
              THEN [doc |-> data, err |-> "MissingSectionHeaderError"]
              ELSE ReadLines(Tail(ls),
                             [data EXCEPT ![Len(data)].body =
                                              @ \o pending \o <<l>>],
                             <<>>, TRUE)
         ELSE ReadLines(Tail(ls), data, Append(pending, l), inSec)

\* load() of an existing file: r = Reader(filename); parser.readfp(r)
ReadFp(doc, flines) == ReadLines(ReadAll(flines, 0), doc, <<>>, FALSE)

----------------------------------------------------------------------------
(* RepoFile: one instance, the file at its path, and the Repo objects its
   caller builds and passes in *)

\* assignments the caller makes to a Repo object before passing it in
MaxSets == 1
\* top-level items of the in-memory document
MaxItems == 5

\* repo ids
Ids == {"a", "b"}
\* the keys the caller assigns: a property with a default, a URL key and a
\* key outside the well-known ones (name and gpgkey stay None)
SetKeys == {"enabled", "baseurl", "extra"}
\* the values the caller assigns: the empty string and a plain value
SetValues == {"", "u"}
\* a value with trailing whitespace
PaddedValues == {"u "}

\* The Repo objects a caller gets from Repo(id) followed by n assignments
\* repo[k] = v with values from vals.
RECURSIVE ReposAfter(_, _)
ReposAfter(n, vals) ==
    IF n = 0 THEN {RepoNew(id) : id \in Ids}
    ELSE {DictSet(r, k, v) : r \in ReposAfter(n - 1, vals),
                             k \in SetKeys, v \in vals}

\* the Repo objects passed in, by the number of assignments made to them
RepoInputs == [n \in 0..MaxSets |-> ReposAfter(n, SetValues)]
RepoInputsAnyValue ==
    [n \in 0..MaxSets |-> ReposAfter(n, SetValues \cup PaddedValues)]
\* the Repo objects passed in as Repo(id) made them
RepoInputsFresh ==
    [n \in 0..MaxSets |-> IF n = 0 THEN ReposAfter(0, {}) ELSE {}]

\* add_repo(r), r a Repo object from inputs
AddRepoOf(inputs) ==
    /\ Len(parser) < MaxItems
    /\ \E n \in 0..MaxSets : \E r \in inputs[n] :
         LET res == AddRepoResult(parser, r) IN
           /\ repo' = r
           /\ nsets' = n
           /\ parser' = res.doc
           /\ err' = res.err
           /\ added' = IF added = NotTracked \/ res.err # "ok" THEN added
                       ELSE Append(added, r)
    /\ lastOp' = "add"
    /\ UNCHANGED <<file, firstWrite, created, readerVars, mirrorVars>>

\* add_repo(repo)
AddRepo == AddRepoOf(RepoInputs)

\* add_repo(repo), also with values that end in whitespace
AddRepoAnyValue == AddRepoOf(RepoInputsAnyValue)

\* add_repo(repo) with a Repo object as Repo(id) made it
AddRepoFresh == AddRepoOf(RepoInputsFresh)

\* update_repo(r), r a Repo object from inputs
UpdateRepoOf(inputs) ==
    /\ \E n \in 0..MaxSets : \E r \in inputs[n] :
         LET res == UpdateRepoResult(parser, r) IN
           /\ repo' = r
           /\ nsets' = n
           /\ parser' = res.doc
           /\ err' = res.err
    /\ added' = NotTracked
    /\ lastOp' = "update"
    /\ UNCHANGED <<file, firstWrite, created, readerVars, mirrorVars>>

\* update_repo(repo)
UpdateRepo == UpdateRepoOf(RepoInputs)

\* update_repo(repo) with a Repo object as Repo(id) made it
UpdateRepoFresh == UpdateRepoOf(RepoInputsFresh)

\* remove_repo_by_name(repo_name)
RemoveRepoByName ==
    /\ \E repo_name \in Ids : parser' = RemoveSection(parser, repo_name)
    /\ added' = NotTracked
    /\ err' = "ok"
    /\ lastOp' = "remove"
    /\ UNCHANGED <<file, repo, nsets, firstWrite, created,
                   readerVars, mirrorVars>>

\* load(allow_missing): returns at once when the file is missing and
\* allow_missing; Reader's open() raises when it is missing otherwise
Load ==
    /\ \E allow_missing \in BOOLEAN :
         IF file = NoFile
         THEN /\ err' = IF allow_missing THEN "ok" ELSE "IOError"
              /\ UNCHANGED <<parser, created, added>>
         ELSE /\ Len(parser) + Len(ReadAll(file, 0)) <= MaxItems
              /\ LET res == ReadFp(parser, file) IN
                   /\ parser' = res.doc
                   /\ err' = res.err
              /\ created' = FALSE
              /\ added' = NotTracked
    /\ lastOp' = "load"
    /\ UNCHANGED <<file, repo, nsets, firstWrite, readerVars, mirrorVars>>

\* save()
Save ==
    /\ firstWrite' = (file = NoFile)
    /\ file' = SaveLines(parser, file = NoFile)
    /\ created' = IF file = NoFile THEN TRUE ELSE created
    /\ err' = "ok"
    /\ lastOp' = "save"
    /\ UNCHANGED <<parser, repo, nsets, added, readerVars, mirrorVars>>

\* delete()
Delete ==
    /\ file' = NoFile
    /\ created' = FALSE
    /\ err' = "ok"
    /\ lastOp' = "delete"
    /\ UNCHANGED <<parser, repo, nsets, added, firstWrite,
                   readerVars, mirrorVars>>

----------------------------------------------------------------------------
(* Specifications *)

\* The Reader alone.  Reader.__init__: idx = 0 and lines = bfr.split('\n'),
\* which is never empty.  The other components are not constructed.
InitReader ==
    /\ lines \in SeqsOf(ReaderLines, 1, MaxLines)
    /\ idx = 0
    /\ out = <<>>
    /\ ret = NotCalled
    /\ ended = FALSE
    /\ entries = <<>>
    /\ mfile = NoMirrorFile
    /\ msaved = <<>>
    /\ mfresh = NotLoaded
    /\ mlast = "init"
    /\ file = NoFile
    /\ parser = <<>>
    /\ repo = NoRepo
    /\ nsets = 0
    /\ added = <<>>
    /\ err = "ok"
    /\ lastOp = "init"
    /\ firstWrite = FALSE
    /\ created = FALSE

NextReader == ReaderReadline

SpecReader == InitReader /\ [][NextReader]_vars

\* The state after the constructors: MirrorListFile.__init__ sets
\* entries = [], RepoFile.__init__ sets parser = ConfigParser(); neither file
\* exists; the caller holds no Repo object.
Init ==
    /\ lines = <<EmptyLine>>
    /\ idx = 0
    /\ out = <<>>
    /\ ret = NotCalled
    /\ ended = FALSE
    /\ entries = <<>>
    /\ mfile = NoMirrorFile
    /\ msaved = <<>>
    /\ mfresh = NotLoaded
    /\ mlast = "init"
    /\ file = NoFile
    /\ parser = <<>>
    /\ repo = NoRepo
    /\ nsets = 0
    /\ added = <<>>
    /\ err = "ok"
    /\ lastOp = "init"
    /\ firstWrite = FALSE
    /\ created = FALSE

\* a MirrorListFile instance and a second one that loads what it saved
NextMirror ==
    \/ MirrorAddEntry
    \/ MirrorAddEntries
    \/ MirrorDelete
    \/ MirrorLoad
    \/ MirrorSave
    \/ MirrorFreshLoad

SpecMirror == Init /\ [][NextMirror]_vars

\* A RepoFile instance whose document is edited in memory: records are
\* built, added, updated and removed.
NextEdit ==
    \/ AddRepo
    \/ UpdateRepo
    \/ RemoveRepoByName

SpecEdit == Init /\ [][NextEdit]_vars

\* A RepoFile instance and its file: load, save and delete, with freshly
\* created records added, updated and removed in between.
NextFile ==
    \/ AddRepoFresh
    \/ UpdateRepoFresh
    \/ RemoveRepoByName
    \/ Load
    \/ Save
    \/ Delete

SpecFile == Init /\ [][NextFile]_vars

\* A RepoFile instance populated through add_repo and saved.
NextRoundTrip ==
    \/ AddRepoAnyValue
    \/ Save
    \/ Delete

SpecRoundTrip == Init /\ [][NextRoundTrip]_vars

----------------------------------------------------------------------------
(* Claims *)

\* the keys Repo.items() can return
ItemKeys == PropertyNames \cup {"baseurl", "mirrorlist"}

\* what a fresh RepoFile instance bound to the same path gets from load()
\* followed by all_repos()
Reloaded == AllRepos(ReadFp(<<>>, file).doc)

HeaderComments == SubSeq(FILE_HEADER, 1, 4)

\* the places of f where the header's comment lines stand
HeaderPlaces(f) ==
    {i \in 1..Len(f) : i + 3 <= Len(f) /\ SubSeq(f, i, i + 3) = HeaderComments}

\* the file holds the header block exactly once, at the very top
HeaderOnceAtTop(f) == HeaderPlaces(f) = {1}

\* C2 as stated: a save() made while no file exists writes a file that holds
\* the header block exactly once, at the very top, whatever load, add, update,
\* remove, save and delete calls came before.
C2_FirstSaveHeaderOnce ==
    (lastOp = "save" /\ firstWrite) => HeaderOnceAtTop(file)

\* C3 as stated: once a save() of this instance has created the file, every
\* later save() of the instance, made while the file still exists and with no
\* load() in between, leaves a file with the header exactly once at the top.
C3_LaterSaveHeaderOnce ==
    (lastOp = "save" /\ ~firstWrite /\ created) => HeaderOnceAtTop(file)

\* what _parser_to_repo leaves under a key of items() that the section lacks:
\* the default of Repo.__init__, None for a property without default, and no
\* key at all for baseurl and mirrorlist
AfterRemoval(k) ==
    CASE k = "enabled" -> "1"
      [] k \in {"sslverify", "gpgcheck"} -> "0"
      [] k \in {"name", "gpgkey"} -> None
      [] OTHER -> Absent

\* C4 as stated: after update_repo(record), every key the record holds with
\* an empty value is gone from the section and the record get_repo(id)
\* returns does not contain it.
C4_EmptyKeyGone ==
    (lastOp = "update" /\ err = "ok") =>
        \A k \in Keys :
            repo.d[k] = "" =>
                /\ OptionValue(parser, repo.id, k) = Absent
                /\ GetRepo(parser, repo.id).d[k] = Absent

\* C4 amended: after update_repo(record), every key of items() that the
\* record holds with an empty value ('' or None) is gone from the section;
\* the record get_repo(id) returns is Repo(id) overlaid with the section, so
\* it carries the declared default for enabled, sslverify and gpgcheck, None
\* for name and gpgkey, and no key for baseurl and mirrorlist.
C4_EmptyKeyDefaulted ==
    (lastOp = "update" /\ err = "ok") =>
        \A k \in ItemKeys :
            repo.d[k] \in {"", None} =>
                /\ OptionValue(parser, repo.id, k) = Absent
                /\ GetRepo(parser, repo.id).d[k] = AfterRemoval(k)

\* C4 witness: an update_repo succeeded with enabled set to the empty string
C4_Witness ==
    /\ lastOp = "update"
    /\ err = "ok"
    /\ repo.d["enabled"] = ""
    /\ GetRepo(parser, repo.id).d["enabled"] = "1"

\* C5: add_repo with an id whose section exists fails with
\* DuplicateSectionError (Conflict), update_repo with an id that has no
\* section fails with NoSectionError (NotFound), and in both cases the
\* document is what it was before the call.
C5_FailsBeforeMutating ==
    [][ /\ (lastOp' = "add" /\ HasSection(parser, repo'.id)) =>
             (err' = "DuplicateSectionError" /\ parser' = parser)
        /\ (lastOp' = "update" /\ ~HasSection(parser, repo'.id)) =>
             (err' = "NoSectionError" /\ parser' = parser) ]_vars

\* C5 witness: update_repo failed on an id without section while the
\* document holds another section and the record carries a URL
C5_Witness ==
    /\ lastOp = "update"
    /\ err = "NoSectionError"
    /\ parser # <<>>
    /\ repo.d["baseurl"] = "u"

\* C6 as stated: items() of a freshly created Repo is (enabled, '1'),
\* (sslverify, '0'), (gpgcheck, '0'): name and gpgkey are omitted.
C6_FreshItemsOmitNone ==
    (lastOp \in {"add", "update"} /\ nsets = 0) =>
        Items(repo) = << <<"enabled", "1">>, <<"sslverify", "0">>,
                         <<"gpgcheck", "0">> >>

\* C6 amended: items() of a freshly created Repo is the five properties in
\* declaration order, name and gpgkey carrying None: (name, None),
\* (enabled, '1'), (gpgkey, None), (sslverify, '0'), (gpgcheck, '0'); there is
\* no baseurl or mirrorlist entry.
C6_FreshItemsAllProperties ==
    (lastOp \in {"add", "update"} /\ nsets = 0) =>
        Items(repo) = << <<"name", None>>, <<"enabled", "1">>,
                         <<"gpgkey", None>>, <<"sslverify", "0">>,
                         <<"gpgcheck", "0">> >>

\* C6 witness: a freshly created Repo was added
C6_Witness == lastOp = "add" /\ nsets = 0 /\ err = "ok" /\ repo.id = "a"

\* the input with every maximal run of blank lines replaced by one blank line
\* (the '\n' the Reader returns for it)
RECURSIVE CollapseRuns(_)
CollapseRuns(ls) ==
    IF ls = <<>> THEN <<>>
    ELSE IF IsBlank(Head(ls))
         THEN IF Len(ls) > 1 /\ IsBlank(ls[2])
              THEN CollapseRuns(Tail(ls))
              ELSE <<NewlineOnly>> \o CollapseRuns(Tail(ls))
         ELSE <<Head(ls)>> \o CollapseRuns(Tail(ls))

\* the input without its trailing blank lines
RECURSIVE DropTrailingBlanks(_)
DropTrailingBlanks(ls) ==
    IF ls = <<>> \/ ~IsBlank(ls[Len(ls)]) THEN ls
    ELSE DropTrailingBlanks(SubSeq(ls, 1, Len(ls) - 1))

\* C7 as stated: the lines returned up to end-of-stream are the input with
\* every maximal run of blank lines, leading, interior or trailing, replaced
\* by exactly one blank line.
C7_CollapseEveryRun == ended => out = CollapseRuns(lines)

\* C7 amended: the lines returned up to end-of-stream are the input with
\* every leading or interior maximal run of blank lines replaced by exactly
\* one blank line and every non-blank line passed through unchanged in
\* order; a trailing run of blank lines is dropped, not replaced.
C7_CollapseDropTrailing ==
    ended => out = CollapseRuns(DropTrailingBlanks(lines))

\* C7 witness: end-of-stream on an input with an interior run of two blank
\* lines and a trailing blank line
C7_Witness ==
    /\ ended
    /\ Len(lines) = 5
    /\ ~IsBlank(lines[1]) /\ IsBlank(lines[2]) /\ IsBlank(lines[3])
    /\ ~IsBlank(lines[4]) /\ IsBlank(lines[5])

\* C8 as stated: after load() of an existing file the document's sections and
\* key/value pairs are exactly those of the file.
C8_LoadReplaces ==
    (lastOp = "load" /\ file # NoFile /\ err = "ok") =>
        /\ Sections(parser) = Sections(ReadFp(<<>>, file).doc)
        /\ \A id \in Ids, k \in Keys :
             OptionValue(parser, id, k)
                 = OptionValue(ReadFp(<<>>, file).doc, id, k)

\* every entry is a URL string: not empty and free of whitespace
AllUrls(es) ==
    \A i \in 1..Len(es) :
        es[i] # <<>> /\ \A j \in 1..Len(es[i]) : es[i][j] \notin Whitespace

\* C9: when the entries saved are URL strings, load() on a fresh instance
\* yields the same sequence (length, order, duplicates), and load() on the
\* instance that already holds entries leaves exactly the file's entries.
C9_MirrorRoundTrip ==
    /\ (mfresh # NotLoaded /\ AllUrls(msaved)) => mfresh = msaved
    /\ (mlast = "load" /\ AllUrls(msaved)) => entries = msaved

\* C9 witness: a fresh instance loaded a saved list with a duplicate
C9_Witness ==
    /\ mfresh # NotLoaded
    /\ msaved = << <<"a">>, <<"a">> >>

\* C10: the lines returned never hold two consecutive blank lines, the cursor
\* never passes the number of lines, and once a call has returned
\* end-of-stream every later call returns end-of-stream.
C10_NoTwoBlanks ==
    /\ \A i \in 1..(Len(out) - 1) :
         ~(out[i].t = "empty" /\ out[i + 1].t = "empty")
    /\ idx <= Len(lines)
    /\ ended => ret = NoneLine

\* C10 witness: two section lines three blank lines apart were read to
\* end-of-stream and one blank line was returned between them
C10_Witness ==
    /\ ended
    /\ lines = <<SectionLine("a"), EmptyLine, EmptyLine, EmptyLine,
                 SectionLine("b")>>
    /\ out = <<SectionLine("a"), NewlineOnly, SectionLine("b")>>

====
